---- MODULE Spec2Model ----
(***************************************************************************)
(* Model of the plaintext pixel-matrix tools of the repository:            *)
(*   Edge Detection/convert_image.py        (convert_to_txt, convert_to_img, *)
(*                                           command line dispatch)        *)
(*   Image Segmentation/ReadImage.py        (save_image_matrix)            *)
(*   Image Segmentation/visualize.py        (load_segmented_image)         *)
(*   Edge Detection/generate_test_images.py (text generators)              *)
(*   Image Segmentation/generate_test_images.py (array generators)         *)
(*   Image Segmentation/generate_large_images.py (create_bimodal_image)    *)
(*                                                                         *)
(* Text is modelled character by character: a line is a sequence of        *)
(* one-character strings, a text file a sequence of lines (the newline     *)
(* that ends each line is implicit).  str() and int() are modelled by      *)
(* what they do on decimal digits.                                         *)
(***************************************************************************)
EXTENDS Integers, Sequences, FiniteSets, TLC

VARIABLES
    argv,        \* sys.argv of the current run of convert_image.py
    fsImg,       \* the raster image file the tools read
    fsTxt,       \* the plaintext matrix file
    outImg,      \* the raster image file convert_to_img writes
    pixels,      \* convert_to_img's local pixel buffer when it returned
    stdout,      \* what has been printed so far (message kinds)
    exitStatus,  \* exit status of the last run (-1: none has ended yet)
    runs,        \* number of program runs started so far
    ops,         \* the operations run so far, oldest first
    loaded,      \* what load_segmented_image returned or raised
    call,        \* the generator call of the current run, with its arguments
    arr,         \* the array a generator returned
    rng,         \* the random source as the last generator call left it
    written      \* the (H, W, C) of the matrix the last text writer was given

vars == <<argv, fsImg, fsTxt, outImg, pixels, stdout, exitStatus, runs, ops,
          loaded, call, arr, rng, written>>

----------------------------------------------------------------------------
(* Bounds of the model *)

MaxH == 2
MaxW == 2
MaxRuns == 2

\* a raw draw of the random source is one of 0..URes (lowest .. highest outcome)
URes == 1
\* the random source yields a repeating stream of raw draws of period <= MaxPeriod
MaxPeriod == 2

\* pixel values of the input images: both ends of the range, one, two and
\* three digit numbers
PixelVals == {0, 85, 255}

----------------------------------------------------------------------------
(* Python str(), int(), str.split(), " ".join() *)

Digits == <<"0", "1", "2", "3", "4", "5", "6", "7", "8", "9">>

IsDigit(c) == \E i \in 1..10 : Digits[i] = c

DigitVal(c) == (CHOOSE i \in 1..10 : Digits[i] = c) - 1

IsSpace(c) == c = " "

RECURSIVE StrNat(_)
StrNat(n) == IF n < 10 THEN <<Digits[n + 1]>>
             ELSE StrNat(n \div 10) \o <<Digits[(n % 10) + 1]>>

\* str(n) of a Python int
Str(n) == IF n < 0 THEN <<"-">> \o StrNat(-n) ELSE StrNat(n)

RECURSIVE NatOf(_)
NatOf(ds) == IF Len(ds) = 0 THEN 0
             ELSE 10 * NatOf(SubSeq(ds, 1, Len(ds) - 1)) + DigitVal(ds[Len(ds)])

AllDigits(ds) == Len(ds) > 0 /\ \A i \in 1..Len(ds) : IsDigit(ds[i])

\* whether int(tok) succeeds: an optional sign, then one or more digits
IsInt(tok) ==
    /\ Len(tok) > 0
    /\ IF tok[1] \in {"-", "+"} THEN AllDigits(Tail(tok)) ELSE AllDigits(tok)

\* int(tok), for a token int() accepts
IntOf(tok) ==
    IF tok[1] = "-" THEN 0 - NatOf(Tail(tok))
    ELSE IF tok[1] = "+" THEN NatOf(Tail(tok))
    ELSE NatOf(tok)

\* the maximal runs of non-whitespace characters of line[lo..hi], as
\* <<first, last>> index pairs: a run starts after whitespace or at lo and
\* ends before whitespace or at hi
TokenSpans(line, lo, hi) ==
    LET IsFirst(i) == ~IsSpace(line[i]) /\ (i = lo \/ IsSpace(line[i - 1]))
        IsLast(i) == ~IsSpace(line[i]) /\ (i = hi \/ IsSpace(line[i + 1]))
        idx == [i \in 1..(hi - lo + 1) |-> lo + i - 1]
        firsts == SelectSeq(idx, IsFirst)
        lasts == SelectSeq(idx, IsLast)
    IN  [k \in 1..Len(firsts) |-> <<firsts[k], lasts[k]>>]

\* line.strip().split(): the maximal runs of non-whitespace characters
Split(line) ==
    LET sp == TokenSpans(line, 1, Len(line))
    IN  [k \in 1..Len(sp) |-> SubSeq(line, sp[k][1], sp[k][2])]

\* the concatenation of seqs[lo..hi], with sep between neighbours
RECURSIVE JoinRange(_, _, _, _)
JoinRange(seqs, sep, lo, hi) ==
    IF lo > hi THEN <<>>
    ELSE IF lo = hi THEN seqs[lo]
    ELSE LET mid == (lo + hi) \div 2
         IN  JoinRange(seqs, sep, lo, mid) \o sep \o JoinRange(seqs, sep, mid + 1, hi)

\* " ".join(tokens)
Join(toks) == JoinRange(toks, <<" ">>, 1, Len(toks))

\* map(str, row)
StrAll(row) == [i \in 1..Len(row) |-> Str(row[i])]

\* [int(x) for x in toks]
IntAll(toks) == [i \in 1..Len(toks) |-> IntOf(toks[i])]

\* the concatenation of the rows of a sequence of sequences
Flatten(rows) == JoinRange(rows, <<>>, 1, Len(rows))

----------------------------------------------------------------------------
(* Files *)

NoTxt == [exists |-> FALSE, lines |-> <<>>]
TxtFile(ls) == [exists |-> TRUE, lines |-> ls]

NoImg == [exists |-> FALSE, w |-> 0, h |-> 0, data |-> <<>>]
ImgFile(w, h, data) == [exists |-> TRUE, w |-> w, h |-> h, data |-> data]

\* the f"{H} {W} {C}\n" header line every writer starts with
HeaderLine(h, w, c) == Join(<<Str(h), Str(w), Str(c)>>)

----------------------------------------------------------------------------
(* Edge Detection/convert_image.py *)

\* pixels[i:i+width] for i in range(0, len(pixels), width), width > 0
RECURSIVE RowChunks(_, _)
RowChunks(px, width) ==
    IF Len(px) = 0 THEN <<>>
    ELSE IF Len(px) <= width THEN <<px>>
    ELSE <<SubSeq(px, 1, width)>> \o RowChunks(SubSeq(px, width + 1, Len(px)), width)

\* one text row: " ".join(map(str, row))
RowLine(row) == Join(StrAll(row))

\* the step of range(0, len(pixels), width); range() raises ValueError for 0
RangeStepOk(width) == width # 0

\* convert_to_txt(img_path, txt_path): what it prints and leaves in the text file
ConvertToTxt(img, oldTxt) ==
    IF ~img.exists
    THEN [txt |-> oldTxt, msgs |-> <<"ErrorToText">>]
    ELSE LET width == img.w
             height == img.h
             px == img.data
             header == HeaderLine(height, width, 1)
         IN  IF ~RangeStepOk(width)
             THEN [txt |-> TxtFile(<<header>>),
                   msgs |-> <<"Converting", "ErrorToText">>]
             ELSE LET chunks == RowChunks(px, width)
                  IN  [txt |-> TxtFile(<<header>>
                                 \o [i \in 1..Len(chunks) |-> RowLine(chunks[i])]),
                       msgs |-> <<"Converting", "Done">>]

\* f.readline(): the first line, or the empty string at end of file
ReadLine(txt) == IF Len(txt.lines) = 0 THEN <<>> ELSE txt.lines[1]

\* the loop "for line in f: pixels.extend([int(x) for x in line.strip().split()])":
\* the buffer when the loop ends, and whether it ended without int() raising
RECURSIVE ReadPixels(_, _)
ReadPixels(body, acc) ==
    IF Len(body) = 0 THEN [pixels |-> acc, ok |-> TRUE]
    ELSE LET toks == Split(body[1])
         IN  IF \E i \in 1..Len(toks) : ~IsInt(toks[i])
             THEN [pixels |-> acc, ok |-> FALSE]
             ELSE ReadPixels(Tail(body), acc \o IntAll(toks))

\* the test guarding the "Warning: Expected ... pixels" message
CountWarning(n, height, width, channels) == n # width * height

\* Image.new('L', (width, height)) raises ValueError for a negative size
ImageNewOk(width, height) == width >= 0 /\ height >= 0

\* img.putdata(pixels) raises TypeError when given more values than the image holds
PutDataOk(px, width, height) == Len(px) <= width * height

Clip8(v) == IF v < 0 THEN 0 ELSE IF v > 255 THEN 255 ELSE v

\* img.putdata(pixels) on a new (zero-filled) image: values are stored in row-major
\* order from the first pixel, each clipped to 8 bits
PutData(px, width, height) ==
    [i \in 1..(width * height) |-> IF i <= Len(px) THEN Clip8(px[i]) ELSE 0]

\* convert_to_img(txt_path, img_path): what it prints, its pixel buffer when it
\* returns and the image file it leaves
ConvertToImg(txt, oldImg) ==
    LET Fail(px, msgs) == [pixels |-> px, msgs |-> <<"Converting">> \o msgs, img |-> oldImg]
    IN
    IF ~txt.exists THEN Fail(<<>>, <<"ErrorToImage">>)
    ELSE
    LET header == Split(ReadLine(txt))
    IN
    IF Len(header) = 0 THEN Fail(<<>>, <<"EmptyFile">>)
    ELSE IF Len(header) # 3 THEN Fail(<<>>, <<"InvalidHeader">>)
    ELSE IF \E i \in 1..3 : ~IsInt(header[i]) THEN Fail(<<>>, <<"ErrorToImage">>)
    ELSE
    LET height == IntOf(header[1])
        width == IntOf(header[2])
        channels == IntOf(header[3])
        rd == ReadPixels(Tail(txt.lines), <<>>)
        warn == IF CountWarning(Len(rd.pixels), height, width, channels)
                THEN <<"Warning">> ELSE <<>>
    IN
    IF ~rd.ok THEN Fail(rd.pixels, <<"ErrorToImage">>)
    ELSE IF ~ImageNewOk(width, height) THEN Fail(rd.pixels, warn \o <<"ErrorToImage">>)
    ELSE IF ~PutDataOk(rd.pixels, width, height)
         THEN Fail(rd.pixels, warn \o <<"ErrorToImage">>)
    ELSE [pixels |-> rd.pixels,
          msgs |-> <<"Converting">> \o warn \o <<"Done">>,
          img |-> ImgFile(width, height, PutData(rd.pixels, width, height))]

\* the command lines tried: too few arguments, each mode, an unknown mode
ArgVectors ==
    { <<"convert_image.py">>,
      <<"convert_image.py", "to_txt">>,
      <<"convert_image.py", "to_img", "in">>,
      <<"convert_image.py", "to_txt", "in", "out">>,
      <<"convert_image.py", "to_img", "in", "out">>,
      <<"convert_image.py", "to_png", "in", "out">>,
      <<"convert_image.py", "", "in", "out">>,
      <<"convert_image.py", "to_img", "in", "out", "extra">> }

NoLoad == [status |-> "none", shape |-> <<>>, data |-> <<>>]
NoCall == [gen |-> "none", h |-> 0, w |-> 0, params |-> <<>>, status |-> "none"]
NoRng == <<0>>
NoArr == [exists |-> FALSE, h |-> 0, w |-> 0, rows |-> <<>>]
NoWritten == [valid |-> FALSE, h |-> 0, w |-> 0, c |-> 0]
Written(h, w, c) == [valid |-> TRUE, h |-> h, w |-> w, c |-> c]

\* the operation of the last run
LastOp == IF Len(ops) = 0 THEN "none" ELSE ops[Len(ops)]

\* a run of a program starts: the codec runs leave the generator state alone
StartRun(op) ==
    /\ runs < MaxRuns
    /\ runs' = runs + 1
    /\ ops' = Append(ops, op)

\* __main__: fewer than three positional arguments
MainUsage(a) ==
    /\ StartRun("usage")
    /\ Len(a) < 4
    /\ argv' = a
    /\ stdout' = stdout \o <<"Usage">>
    /\ exitStatus' = 1
    /\ UNCHANGED <<fsImg, fsTxt, outImg, pixels, loaded, call, arr, rng, written>>

\* __main__: mode == "to_txt"
MainToTxt(a) ==
    /\ StartRun("to_txt")
    /\ Len(a) >= 4
    /\ a[2] = "to_txt"
    /\ argv' = a
    /\ LET r == ConvertToTxt(fsImg, fsTxt)
       IN  /\ fsTxt' = r.txt
           /\ stdout' = stdout \o r.msgs
    /\ written' = IF fsImg.exists THEN Written(fsImg.h, fsImg.w, 1) ELSE NoWritten
    /\ exitStatus' = 0
    /\ UNCHANGED <<fsImg, outImg, pixels, loaded, call, arr, rng>>

\* __main__: mode == "to_img"
MainToImg(a) ==
    /\ StartRun("to_img")
    /\ Len(a) >= 4
    /\ a[2] = "to_img"
    /\ argv' = a
    /\ LET r == ConvertToImg(fsTxt, outImg)
       IN  /\ outImg' = r.img
           /\ pixels' = r.pixels
           /\ stdout' = stdout \o r.msgs
    /\ exitStatus' = 0
    /\ UNCHANGED <<fsImg, fsTxt, loaded, call, arr, rng, written>>

\* the exit status after the "Unknown mode" message: the script runs off its end
UnknownModeStatus == 0

\* __main__: any other mode
MainUnknownMode(a) ==
    /\ StartRun("unknown")
    /\ Len(a) >= 4
    /\ a[2] \notin {"to_txt", "to_img"}
    /\ argv' = a
    /\ stdout' = stdout \o <<"UnknownMode">>
    /\ exitStatus' = UnknownModeStatus
    /\ UNCHANGED <<fsImg, fsTxt, outImg, pixels, loaded, call, arr, rng, written>>

----------------------------------------------------------------------------
(* Image Segmentation/ReadImage.py *)

\* arr[y] of np.array(img): row y (from 0) of the image
ImgRow(img, y) == SubSeq(img.data, y * img.w + 1, (y + 1) * img.w)

\* the values of one RGB row: img.convert("RGB") of a grayscale image gives
\* (v, v, v) for each pixel, written interleaved
RgbRow(row) == Flatten([x \in 1..Len(row) |-> <<row[x], row[x], row[x]>>])

\* save_image_matrix(input_path, output_txt_path, grayscale): the text file it
\* leaves and whether it returned (Image.open raises on a missing file)
SaveImageMatrix(img, oldTxt, grayscale) ==
    IF ~img.exists
    THEN [txt |-> oldTxt, msgs |-> <<>>, status |-> 1]
    ELSE LET H == img.h
             W == img.w
             C == IF grayscale THEN 1 ELSE 3
             row(y) == IF C = 1 THEN RowLine(ImgRow(img, y))
                       ELSE RowLine(RgbRow(ImgRow(img, y)))
         IN  [txt |-> TxtFile(<<HeaderLine(H, W, C)>> \o [y \in 1..H |-> row(y - 1)]),
              msgs |-> <<"Saved">>, status |-> 0]

SaveImageMatrixRun(grayscale) ==
    /\ StartRun("save_image_matrix")
    /\ LET r == SaveImageMatrix(fsImg, fsTxt, grayscale)
       IN  /\ fsTxt' = r.txt
           /\ stdout' = stdout \o r.msgs
           /\ exitStatus' = r.status
    /\ written' = IF fsImg.exists
                  THEN Written(fsImg.h, fsImg.w, IF grayscale THEN 1 ELSE 3)
                  ELSE NoWritten
    /\ UNCHANGED <<argv, fsImg, outImg, pixels, loaded, call, arr, rng>>

----------------------------------------------------------------------------
(* Image Segmentation/visualize.py *)

RECURSIVE Product(_)
Product(dims) == IF Len(dims) = 0 THEN 1 ELSE dims[1] * Product(Tail(dims))

\* numpy's reshape of an array of `size` elements to `dims`: the resulting shape,
\* or <<>> when it raises.  One dimension may be -1 and is then inferred.
Reshape(size, dims) ==
    LET unknown == {i \in 1..Len(dims) : dims[i] = -1}
        known == Product([i \in 1..Len(dims) |-> IF dims[i] = -1 THEN 1 ELSE dims[i]])
    IN  IF \E i \in 1..Len(dims) : dims[i] < -1 THEN <<>>
        ELSE IF Cardinality(unknown) > 1 THEN <<>>
        ELSE IF Cardinality(unknown) = 1
             THEN IF known > 0 /\ size % known = 0
                  THEN [i \in 1..Len(dims) |-> IF dims[i] = -1 THEN size \div known
                                               ELSE dims[i]]
                  ELSE <<>>
        ELSE IF known = size THEN dims ELSE <<>>

\* np.loadtxt(txt_path, dtype=np.uint8, skiprows=1): the token rows it parses;
\* blank lines are skipped
LoadTxtRows(txt) ==
    LET body == IF Len(txt.lines) = 0 THEN <<>> ELSE Tail(txt.lines)
        toks == [i \in 1..Len(body) |-> Split(body[i])]
    IN  SelectSeq(toks, LAMBDA t : Len(t) > 0)

\* the outcomes of load_segmented_image(txt_path): the array it returns or the
\* exception it raises.  A value outside 0..255 is parsed to uint8 by wrapping
\* or raises, depending on the numpy version: both outcomes are kept.
LoadSegmentedImage(txt) ==
    LET Raise(kind) == {[status |-> kind, shape |-> <<>>, data |-> <<>>]}
    IN
    IF ~txt.exists THEN Raise("IOError")
    ELSE
    LET parts == Split(ReadLine(txt))
    IN
    IF Len(parts) = 0 THEN Raise("HeaderError")
    ELSE IF Len(parts) # 3 THEN Raise("HeaderError")
    ELSE IF \E i \in 1..3 : ~IsInt(parts[i]) THEN Raise("ValueError")
    ELSE
    LET H == IntOf(parts[1])
        W == IntOf(parts[2])
        C == IntOf(parts[3])
        rows == LoadTxtRows(txt)
    IN
    IF \E i \in 1..Len(rows) : \E j \in 1..Len(rows[i]) : ~IsInt(rows[i][j])
    THEN Raise("ValueError")
    ELSE IF \E i \in 1..Len(rows) : Len(rows[i]) # Len(rows[1]) THEN Raise("ValueError")
    ELSE
    LET vals == Flatten([i \in 1..Len(rows) |-> IntAll(rows[i])])
        flat == [i \in 1..Len(vals) |-> vals[i] % 256]
        overflow == IF \E i \in 1..Len(vals) : vals[i] \notin 0..255
                    THEN Raise("ValueError") ELSE {}
        shape == IF C = 1 THEN Reshape(Len(flat), <<H, W>>)
                 ELSE IF C = 3 THEN Reshape(Len(flat), <<H, W, C>>)
                 ELSE <<>>
    IN
    overflow \cup
    (IF C \notin {1, 3} THEN Raise("Unsupported")
     ELSE IF shape = <<>> THEN Raise("ValueError")
     ELSE {[status |-> "ok", shape |-> shape, data |-> flat]})

LoadSegmentedImageRun ==
    /\ StartRun("load_segmented_image")
    /\ \E r \in LoadSegmentedImage(fsTxt) :
          /\ loaded' = r
          /\ exitStatus' = IF r.status = "ok" THEN 0 ELSE 1
    /\ UNCHANGED <<argv, fsImg, fsTxt, outImg, pixels, stdout, call, arr, rng, written>>

----------------------------------------------------------------------------
(* The codec programs: initial files and runs *)

\* the grayscale images convert_to_txt and save_image_matrix are given:
\* those of width w and height h, the empty sizes included
Images(w, h) == { ImgFile(w, h, d) : d \in [1..(w * h) -> PixelVals] }

\* first lines of the text files tried: empty, wrong token counts, tokens that
\* are no integers, a negative integer, other channel counts, and valid ones
HeaderInputs ==
    { <<>>,
      <<"b", "a", "d", " ", "h", "e", "a", "d", "e", "r">>,
      <<"a", " ", "b", " ", "c">>,
      <<"2", " ", "2">>,
      HeaderLine(-1, 2, 1),
      HeaderLine(2, -1, 1),
      HeaderLine(2, 2, 1),
      HeaderLine(1, 2, 1),
      HeaderLine(1, 1, 3),
      HeaderLine(1, 3, 0),
      HeaderLine(0, 0, 1) }

\* the lines after the first: no line, too few and too many values, repeated
\* spaces, a token that is no integer
BodyInputs ==
    { <<>>,
      <<RowLine(<<1, 2, 3>>)>>,
      <<RowLine(<<1, 2>>), RowLine(<<3, 4>>)>>,
      <<<<"1", " ", " ", "2">>, RowLine(<<3, 4>>)>>,
      <<RowLine(<<1, 2, 3, 4, 5>>)>>,
      <<RowLine(<<1, 2>>), <<"x">>>>,
      <<RowLine(<<7>>)>> }

TextInputs ==
    {TxtFile(<<>>)} \cup { TxtFile(<<h>> \o b) : h \in HeaderInputs, b \in BodyInputs }

Init ==
    /\ \/ /\ \E w \in 0..MaxW : \E h \in 0..MaxH : fsImg \in Images(w, h)
          /\ fsTxt = NoTxt
       \/ fsImg = NoImg /\ fsTxt \in TextInputs
    /\ argv = <<>>
    /\ outImg = NoImg
    /\ pixels = <<>>
    /\ stdout = <<>>
    /\ exitStatus = -1
    /\ runs = 0
    /\ ops = <<>>
    /\ loaded = NoLoad
    /\ call = NoCall
    /\ arr = NoArr
    /\ rng = NoRng
    /\ written = NoWritten

Next ==
    \/ \E a \in ArgVectors : MainUsage(a)
    \/ \E a \in ArgVectors : MainToTxt(a)
    \/ \E a \in ArgVectors : MainToImg(a)
    \/ \E a \in ArgVectors : MainUnknownMode(a)
    \/ \E g \in BOOLEAN : SaveImageMatrixRun(g)
    \/ LoadSegmentedImageRun

Spec == Init /\ [][Next]_vars

----------------------------------------------------------------------------
(* Claims about the codec *)

\* C1 (as claimed): for every grayscale image, the empty sizes included,
\* convert_to_txt followed by convert_to_img completes without an error message
\* and writes an image of the same size with the same pixel values.
C1_RoundTripAllSizes ==
    (ops = <<"to_txt", "to_img">> /\ fsImg.exists)
        => /\ stdout = <<"Converting", "Done", "Converting", "Done">>
           /\ outImg = fsImg

\* the first line is no header: empty, not three tokens, or a token that is not
\* a non-negative integer
HeaderInvalid(txt) ==
    LET toks == Split(ReadLine(txt))
    IN  \/ Len(toks) # 3
        \/ \E i \in 1..Len(toks) : ~IsInt(toks[i])
        \/ \E i \in 1..Len(toks) : IsInt(toks[i]) /\ IntOf(toks[i]) < 0

\* C3 (as claimed): reading a text file whose first line is no header fails with
\* an error, consumes no pixel row and produces no matrix and no image file.
C3_BadHeaderRejected ==
    /\ (ops = <<"to_img">> /\ fsTxt.exists /\ HeaderInvalid(fsTxt))
          => /\ stdout[Len(stdout)] \in {"EmptyFile", "InvalidHeader", "ErrorToImage"}
             /\ pixels = <<>>
             /\ outImg = NoImg
    /\ (ops = <<"load_segmented_image">> /\ fsTxt.exists /\ HeaderInvalid(fsTxt))
          => loaded.status \in {"HeaderError", "ValueError"}

\* the integers on the lines after the first, in order
BodyValues(txt) == ReadPixels(Tail(txt.lines), <<>>)

\* C4 (as claimed): with a valid header (H, W, C), C being 1 or 3, and integer
\* rows, convert_to_img
\* prints the pixel-count warning exactly when the number of values read differs
\* from H*W*C, and keeps every value read, in order, in its buffer.
C4_WarningIffCountDiffers ==
    (/\ ops = <<"to_img">>
     /\ fsTxt.exists
     /\ ~HeaderInvalid(fsTxt)
     /\ IntOf(Split(ReadLine(fsTxt))[3]) \in {1, 3}
     /\ BodyValues(fsTxt).ok)
        => LET hd == IntAll(Split(ReadLine(fsTxt)))
               expected == hd[1] * hd[2] * hd[3]
               warned == \E i \in 1..Len(stdout) : stdout[i] = "Warning"
           IN  /\ warned <=> (Len(BodyValues(fsTxt).pixels) # expected)
               /\ pixels = BodyValues(fsTxt).pixels

\* C5 (as claimed): with fewer than three positional arguments, or with a mode
\* that is neither to_txt nor to_img, the program prints usage text, exits with a
\* non-zero status, converts nothing and writes no file.
C5_UsageExitsNonZero ==
    (Len(ops) = 1 /\ LastOp \in {"usage", "unknown"})
        => /\ exitStatus # 0
           /\ stdout \in {<<"Usage">>, <<"UnknownMode">>}
           /\ outImg = NoImg
           /\ pixels = <<>>
           /\ written = NoWritten

----------------------------------------------------------------------------
(* The random source.  A generator script draws from one process-wide       *)
(* source (the random module, or np.random).  Its state is the repeating    *)
(* stream of raw draws it will yield from now on; a raw draw u in 0..URes   *)
(* stands for the quantile u/URes of the distribution drawn from.           *)

RandomStreams == UNION { [1..n -> 0..URes] : n \in 1..MaxPeriod }

\* the i-th raw draw made from state r, i >= 1
Draw(r, i) == r[((i - 1) % Len(r)) + 1]

\* the state after n draws: the stream from its (n+1)-th draw on
Advance(r, n) == [i \in 1..Len(r) |-> r[((i - 1 + n) % Len(r)) + 1]]

\* random.randint(a, b) raises ValueError for an empty range
RandIntOk(a, b) == a <= b

\* random.randint(a, b): an integer of a..b, both ends included
RandInt(a, b, u) == a + ((b - a) * u) \div URes

\* random.random() < 0.5, random() being u / (URes + 1), a value of [0, 1)
RandomBelowHalf(u) == 2 * u < URes + 1

Min(a, b) == IF a < b THEN a ELSE b
Max(a, b) == IF a > b THEN a ELSE b

----------------------------------------------------------------------------
(* Edge Detection/generate_test_images.py: generators that write the text *)

\* the rows "for y in range(h): ... for x in range(w): row.append(str(val))",
\* grid[y][x] being the value of val at row y, column x (both from 0)
TextRows(h, w, grid) ==
    [y \in 1..h |-> RowLine([x \in 1..w |-> grid[y - 1][x - 1]])]

\* a variant of the gradient value whose stripes invert about 256
EdgeGradientValOffByOne(x, w) ==
    LET val == (x * 255) \div w
    IN  IF x % 50 < 5 THEN 256 - val ELSE val

\* create_gradient_image: int((x / w) * 255), inverted in the vertical stripes
EdgeGradientVal(x, w) ==
    LET val == (x * 255) \div w
    IN  IF x % 50 < 5 THEN 255 - val ELSE val

CreateGradientImage(h, w) ==
    [txt |-> TxtFile(<<HeaderLine(h, w, 1)>>
                     \o TextRows(h, w, [y \in 0..(h - 1) |-> [x \in 0..(w - 1) |-> 
                                EdgeGradientVal(x, w)]])),
     status |-> "ok", draws |-> 0]

\* create_shapes_image: the five rectangles, then the three circles, each from
\* its own draws in the order the code makes them
ShapeRect(r, k, h, w) ==
    [kind |-> "rect",
     a |-> RandInt(0, w - 100, Draw(r, 5 * k + 1)),
     b |-> RandInt(0, h - 100, Draw(r, 5 * k + 2)),
     c |-> RandInt(30, 100, Draw(r, 5 * k + 3)),
     d |-> RandInt(30, 100, Draw(r, 5 * k + 4)),
     val |-> RandInt(150, 250, Draw(r, 5 * k + 5))]

ShapeCircle(r, k, h, w) ==
    [kind |-> "circle",
     a |-> RandInt(50, w - 50, Draw(r, 25 + 4 * k + 1)),
     b |-> RandInt(50, h - 50, Draw(r, 25 + 4 * k + 2)),
     c |-> RandInt(20, 50, Draw(r, 25 + 4 * k + 3)),
     d |-> 0,
     val |-> RandInt(150, 250, Draw(r, 25 + 4 * k + 4))]

ShapesDrawn(r, h, w) ==
    [k \in 1..5 |-> ShapeRect(r, k - 1, h, w)] \o [k \in 1..3 |-> ShapeCircle(r, k - 1, h, w)]

\* whether drawing shape s writes pixel (y, x)
ShapeWrites(s, y, x, h, w) ==
    IF s.kind = "rect"
    THEN /\ s.b <= y /\ y < Min(s.b + s.d, h)
         /\ s.a <= x /\ x < Min(s.a + s.c, w)
    ELSE /\ Max(0, s.b - s.c) <= y /\ y < Min(h, s.b + s.c + 1)
         /\ Max(0, s.a - s.c) <= x /\ x < Min(w, s.a + s.c + 1)
         /\ (x - s.a) * (x - s.a) + (y - s.b) * (y - s.b) <= s.c * s.c

\* a variant of the drawing in which a shape never overwrites an earlier shape
RECURSIVE PaintFromFirstWins(_, _, _, _, _, _, _)
PaintFromFirstWins(shapes, i, cur, y, x, h, w) ==
    IF i > Len(shapes) THEN cur
    ELSE PaintFromFirstWins(shapes, i + 1,
                   IF ShapeWrites(shapes[i], y, x, h, w) /\ cur = 50
                   THEN shapes[i].val ELSE cur,
                   y, x, h, w)

\* pixels[y][x] after the shapes from the i-th on were drawn over value cur
RECURSIVE PaintFrom(_, _, _, _, _, _, _)
PaintFrom(shapes, i, cur, y, x, h, w) ==
    IF i > Len(shapes) THEN cur
    ELSE PaintFrom(shapes, i + 1,
                   IF ShapeWrites(shapes[i], y, x, h, w) THEN shapes[i].val ELSE cur,
                   y, x, h, w)

\* the dark background the grid starts from
ShapesBackground == 50

CreateShapesImage(r, h, w) ==
    IF ~RandIntOk(0, w - 100)
    THEN [txt |-> NoTxt, status |-> "ValueError", draws |-> 0]
    ELSE IF ~RandIntOk(0, h - 100)
    THEN [txt |-> NoTxt, status |-> "ValueError", draws |-> 1]
    ELSE LET shapes == ShapesDrawn(r, h, w)
         IN  [txt |-> TxtFile(<<HeaderLine(h, w, 1)>>
                        \o TextRows(h, w, [y \in 0..(h - 1) |-> [x \in 0..(w - 1) |-> 
                                PaintFrom(shapes, 1, ShapesBackground, y, x, h, w)]])),
              status |-> "ok", draws |-> 37]

\* create_checkerboard_image
EdgeCheckerVal(y, x, block_size) ==
    LET bx == x \div block_size
        by == y \div block_size
    IN  IF (bx + by) % 2 = 0 THEN 200 ELSE 50

CreateCheckerboardImage(h, w, block_size) ==
    IF block_size = 0 /\ h > 0 /\ w > 0
    THEN [txt |-> TxtFile(<<HeaderLine(h, w, 1)>>),
          status |-> "ZeroDivisionError", draws |-> 0]
    ELSE [txt |-> TxtFile(<<HeaderLine(h, w, 1)>>
                    \o TextRows(h, w, [y \in 0..(h - 1) |-> [x \in 0..(w - 1) |-> 
                                EdgeCheckerVal(y, x, block_size)]])),
          status |-> "ok", draws |-> 0]

\* create_noisy_edges_image: one randint(-20, 20) per pixel, in row-major order
EdgeNoisyVal(y, x, u) ==
    LET band == (y \div 64) % 2
        base0 == IF band = 0 THEN 180 ELSE 60
        base == IF x % 100 < 10 THEN 255 - base0 ELSE base0
        noise == RandInt(-20, 20, u)
    IN  Max(0, Min(255, base + noise))

CreateNoisyEdgesImage(r, h, w) ==
    [txt |-> TxtFile(<<HeaderLine(h, w, 1)>>
               \o TextRows(h, w, [y \in 0..(h - 1) |-> [x \in 0..(w - 1) |-> 
                                EdgeNoisyVal(y, x, Draw(r, y * w + x + 1))]])),
     status |-> "ok", draws |-> h * w]

----------------------------------------------------------------------------
(* Image Segmentation/generate_large_images.py *)

\* one pixel of create_bimodal_image: random.random(), then one randint
LargeBimodalVal(u1, u2) ==
    IF RandomBelowHalf(u1) THEN RandInt(20, 80, u2) ELSE RandInt(180, 240, u2)

\* create_bimodal_image: the header, then one f.write(f"{val}\n") per pixel
CreateBimodalImage(r, h, w) ==
    [txt |-> TxtFile(<<HeaderLine(h, w, 1)>>
               \o [i \in 1..(h * w) |->
                      Str(LargeBimodalVal(Draw(r, 2 * i - 1), Draw(r, 2 * i)))]),
     status |-> "ok", draws |-> 2 * h * w]

----------------------------------------------------------------------------
(* Runs of the generator scripts.  The only state one generator call leaves  *)
(* to the next is the random source, so a behaviour is one generator call,   *)
(* followed by the save of its array; a generator that draws is called with  *)
(* the source in any state r, the state the calls before it left.            *)

SmallSizes == (0..MaxH) \X (0..MaxW)

\* sizes that reach the second stripe of the gradient and the quoted width 256
GradientSizes == SmallSizes \cup {<<1, 56>>, <<2, 256>>}

\* sizes below and at the margins the shape positions are drawn within
ShapesSizes == SmallSizes \cup {<<99, 100>>, <<100, 99>>, <<100, 100>>}

CheckerSizes == SmallSizes \cup {<<4, 4>>, <<5, 7>>}
BlockSizes == {0, 1, 2, 3, 32}

\* sizes that reach both horizontal bands and both sides of a vertical edge
NoisyEdgesSizes == SmallSizes \cup {<<65, 11>>}

\* a generator that writes the text file itself has run
TextGenRun(gen, h, w, params, r, res) ==
    /\ call = NoCall
    /\ StartRun(gen)
    /\ call' = [gen |-> gen, h |-> h, w |-> w, params |-> params, status |-> res.status]
    /\ fsTxt' = res.txt
    /\ rng' = Advance(r, res.draws)
    /\ written' = IF res.txt.exists THEN Written(h, w, 1) ELSE NoWritten
    /\ stdout' = IF res.status = "ok" THEN stdout \o <<"Created">> ELSE stdout
    /\ exitStatus' = IF res.status = "ok" THEN 0 ELSE 1
    /\ UNCHANGED <<argv, fsImg, outImg, pixels, loaded, arr>>

CreateGradientImageRun(h, w) ==
    TextGenRun("create_gradient_image", h, w, <<>>, rng, CreateGradientImage(h, w))

CreateShapesImageRun(h, w) ==
    \E r \in RandomStreams :
        TextGenRun("create_shapes_image", h, w, <<>>, r, CreateShapesImage(r, h, w))

CreateCheckerboardImageRun(h, w, bs) ==
    TextGenRun("create_checkerboard_image", h, w, <<bs>>, rng,
               CreateCheckerboardImage(h, w, bs))

CreateNoisyEdgesImageRun(h, w) ==
    \E r \in RandomStreams :
        TextGenRun("create_noisy_edges_image", h, w, <<>>, r, CreateNoisyEdgesImage(r, h, w))

CreateBimodalImageRun(h, w) ==
    \E r \in RandomStreams :
        TextGenRun("create_bimodal_image", h, w, <<>>, r, CreateBimodalImage(r, h, w))

----------------------------------------------------------------------------
(* Image Segmentation/generate_test_images.py: generators that return a   *)
(* uint8 array, and save_image_txt                                         *)

\* an array of the given shape holding grid[y][x] at row y, column x (from 0)
Arr(h, w, grid) ==
    [exists |-> TRUE, h |-> h, w |-> w,
     rows |-> [y \in 1..h |-> [x \in 1..w |-> grid[y - 1][x - 1]]]]

InU8(v) == v \in 0..255

\* a Python int stored into a uint8 array: a value outside 0..255 wraps modulo
\* 256 or raises OverflowError, depending on the numpy version
WrapU8(v) == v % 256

\* the outcomes of a generator that stored the values `stored` and returns `a`
\* when no store raises
StoreOutcomes(stored, a, r) ==
    {[arr |-> a, status |-> "ok", rng |-> r]}
    \cup (IF \A v \in stored : InU8(v) THEN {}
          ELSE {[arr |-> NoArr, status |-> "OverflowError", rng |-> r]})

Raised(kind, r) == {[arr |-> NoArr, status |-> kind, rng |-> r]}

\* generate_bimodal_image(width, height, bg_val, fg_val)
GenerateBimodalImage(r, h, w, bg_val, fg_val) ==
    StoreOutcomes({bg_val, fg_val},
                  Arr(h, w, [y \in 0..(h - 1) |-> [x \in 0..(w - 1) |-> 
                      IF x < w \div 2 THEN WrapU8(bg_val) ELSE WrapU8(fg_val)]]),
                  r)

\* generate_circle_image(width, height, bg_val, fg_val)
GenerateCircleImage(r, h, w, bg_val, fg_val) ==
    LET cy == h \div 2
        cx == w \div 2
        radius == Min(w, h) \div 3
        inside(y, x) == (x - cx) * (x - cx) + (y - cy) * (y - cy) <= radius * radius
    IN  StoreOutcomes({bg_val} \cup (IF h > 0 /\ w > 0 THEN {fg_val} ELSE {}),
                      Arr(h, w, [y \in 0..(h - 1) |-> [x \in 0..(w - 1) |-> 
                          IF inside(y, x) THEN WrapU8(fg_val) ELSE WrapU8(bg_val)]]),
                      r)

\* a variant of the gradient value that divides by the width
SegGradientValOverWidth(x, width) == (255 * x) \div width

\* generate_gradient_image: int(255 * x / (width - 1))
SegGradientVal(x, width) == (255 * x) \div (width - 1)

\* generate_gradient_image(width, height): the division is by zero for width 1
GenerateGradientImage(r, h, w) ==
    IF w - 1 = 0 THEN Raised("ZeroDivisionError", r)
    ELSE StoreOutcomes({},
                       Arr(h, w, [y \in 0..(h - 1) |-> [x \in 0..(w - 1) |-> SegGradientVal(x, w)]]),
                       r)

\* a variant of the checkerboard pixel with the two levels exchanged
SegCheckerValSwapped(y, x, block_size, dark, bright) ==
    LET block_y == y \div block_size
        block_x == x \div block_size
    IN  IF (block_x + block_y) % 2 = 0 THEN bright ELSE dark

\* a variant of the checkerboard pixel that alternates by pixel, not by block
SegCheckerValByPixel(y, x, block_size, dark, bright) ==
    LET block_y == y % block_size
        block_x == x % block_size
    IN  IF (block_x + block_y) % 2 = 0 THEN dark ELSE bright

\* one pixel of generate_checkerboard_image
SegCheckerVal(y, x, block_size, dark, bright) ==
    LET block_y == y \div block_size
        block_x == x \div block_size
    IN  IF (block_x + block_y) % 2 = 0 THEN dark ELSE bright

\* generate_checkerboard_image(width, height, block_size, dark, bright)
GenerateCheckerboardImage(r, h, w, block_size, dark, bright) ==
    IF block_size = 0 /\ h > 0 /\ w > 0 THEN Raised("ZeroDivisionError", r)
    ELSE StoreOutcomes(
             { SegCheckerVal(p[1], p[2], block_size, dark, bright) :
                   p \in (0..(h - 1)) \X (0..(w - 1)) },
             Arr(h, w, [y \in 0..(h - 1) |-> [x \in 0..(w - 1) |-> 
                     WrapU8(SegCheckerVal(y, x, block_size, dark, bright))]]),
             r)

\* how many standard deviations the lowest and highest raw draw stand for
GaussSpread == 4

\* np.random.seed(seed): the stream the seed fixes (one stream per seed)
SeedState(seed) == IF seed = 42 THEN <<URes, 0, 1, 0>> ELSE <<1, URes, 0>>

\* twice the value of a draw of np.random.normal(mean, std) (values are kept in
\* halves, so that the truncation of a fractional value is modelled)
NormalHalves(mean, std, u) == 2 * mean + std * (2 * u - URes) * GaussSpread

\* np.clip(v, 0, 255).astype(np.uint8) of a value given in halves: clipped, then
\* truncated to an integer
ClipToU8(v2) == Min(510, Max(0, v2)) \div 2

\* generate_noisy_bimodal_image(width, height, bg_mean, fg_mean, noise_std)
GenerateNoisyBimodalImage(r, h, w, bg_mean, fg_mean, noise_std) ==
    LET s == SeedState(42)
        half == w \div 2
        val(y, x) ==
            IF x < half
            THEN ClipToU8(2 * bg_mean + NormalHalves(0, noise_std, Draw(s, y * half + x + 1)))
            ELSE ClipToU8(2 * fg_mean
                          + NormalHalves(0, noise_std,
                                Draw(s, h * half + y * (w - half) + (x - half) + 1)))
    IN  IF noise_std < 0 THEN Raised("ValueError", s)
        ELSE StoreOutcomes({},
                 Arr(h, w, [y \in 0..(h - 1) |-> [x \in 0..(w - 1) |-> val(y, x)]]),
                 Advance(s, h * w))

\* generate_three_level_image(width, height)
GenerateThreeLevelImage(r, h, w) ==
    LET third == w \div 3
    IN  StoreOutcomes({}, Arr(h, w, [y \in 0..(h - 1) |-> [x \in 0..(w - 1) |-> 
                          IF x < third THEN 30 ELSE IF x < 2 * third THEN 128 ELSE 230]]),
                      r)

\* generate_large_test_image(width, height)
GenerateLargeTestImage(r, h, w) ==
    LET s == SeedState(123)
        hh == h \div 2
        hw == w \div 2
        val(y, x) ==
            IF y < hh /\ x < hw THEN (255 * x) \div (hw - 1)
            ELSE IF y < hh THEN 200
            ELSE IF x < hw THEN 50
            ELSE RandInt(0, 255, Draw(s, (y - hh) * (w - hw) + (x - hw) + 1))
    IN  IF hw > 0 /\ hw - 1 = 0 THEN Raised("ZeroDivisionError", s)
        ELSE StoreOutcomes({},
                 Arr(h, w, [y \in 0..(h - 1) |-> [x \in 0..(w - 1) |-> val(y, x)]]),
                 Advance(s, (h - hh) * (w - hw)))

\* a variant of generate_very_large_image that draws from the source as it
\* finds it, without seeding it
GenerateVeryLargeImageUnseeded(r, h, w) ==
    LET s == r
        hh == h \div 2
        val(y, x) == ClipToU8(NormalHalves(IF y < hh THEN 60 ELSE 180, 30,
                                           Draw(s, y * w + x + 1)))
    IN  StoreOutcomes({},
                 Arr(h, w, [y \in 0..(h - 1) |-> [x \in 0..(w - 1) |-> val(y, x)]]),
                 Advance(s, h * w))

\* generate_very_large_image(width, height)
GenerateVeryLargeImage(r, h, w) ==
    LET s == SeedState(42)
        hh == h \div 2
        val(y, x) == ClipToU8(NormalHalves(IF y < hh THEN 60 ELSE 180, 30,
                                           Draw(s, y * w + x + 1)))
    IN  StoreOutcomes({},
                 Arr(h, w, [y \in 0..(h - 1) |-> [x \in 0..(w - 1) |-> val(y, x)]]),
                 Advance(s, h * w))

\* save_image_txt(arr, filename)
SaveImageTxt(a) ==
    TxtFile(<<HeaderLine(a.h, a.w, 1)>> \o [y \in 1..a.h |-> RowLine(a.rows[y])])

\* parameter values tried: the defaults, the ends of the range, values outside it
LevelPairs == {<<50, 200>>, <<0, 255>>, <<300, 200>>, <<30, -1>>}
NoiseParams == {<<60, 200, 20>>, <<0, 255, 100>>, <<60, 200, 0>>, <<60, 200, -1>>}
ThreeLevelSizes == SmallSizes \cup {<<1, 7>>}
QuadrantSizes == SmallSizes \cup {<<4, 4>>, <<5, 7>>}

\* a generator that returns an array has run
ArrGenRun(gen, h, w, params, outcomes) ==
    /\ call = NoCall
    /\ StartRun(gen)
    /\ \E res \in outcomes :
          /\ call' = [gen |-> gen, h |-> h, w |-> w, params |-> params,
                      status |-> res.status]
          /\ arr' = res.arr
          /\ rng' = res.rng
          /\ exitStatus' = IF res.status = "ok" THEN 0 ELSE 1
    /\ UNCHANGED <<argv, fsImg, fsTxt, outImg, pixels, stdout, loaded, written>>

GenerateBimodalImageRun(h, w, p) ==
    ArrGenRun("generate_bimodal_image", h, w, p,
              GenerateBimodalImage(rng, h, w, p[1], p[2]))

GenerateCircleImageRun(h, w, p) ==
    ArrGenRun("generate_circle_image", h, w, p,
              GenerateCircleImage(rng, h, w, p[1], p[2]))

GenerateGradientImageRun(h, w) ==
    ArrGenRun("generate_gradient_image", h, w, <<>>, GenerateGradientImage(rng, h, w))

GenerateCheckerboardImageRun(h, w, bs, p) ==
    ArrGenRun("generate_checkerboard_image", h, w, <<bs, p[1], p[2]>>,
              GenerateCheckerboardImage(rng, h, w, bs, p[1], p[2]))

GenerateNoisyBimodalImageRun(h, w, p) ==
    ArrGenRun("generate_noisy_bimodal_image", h, w, p,
              GenerateNoisyBimodalImage(rng, h, w, p[1], p[2], p[3]))

GenerateThreeLevelImageRun(h, w) ==
    ArrGenRun("generate_three_level_image", h, w, <<>>, GenerateThreeLevelImage(rng, h, w))

GenerateLargeTestImageRun(h, w) ==
    ArrGenRun("generate_large_test_image", h, w, <<>>, GenerateLargeTestImage(rng, h, w))

GenerateVeryLargeImageRun(h, w) ==
    ArrGenRun("generate_very_large_image", h, w, <<>>, GenerateVeryLargeImage(rng, h, w))

\* main(): save_image_txt of the array a generator returned
SaveImageTxtRun ==
    /\ arr.exists
    /\ LastOp # "save_image_txt"
    /\ StartRun("save_image_txt")
    /\ fsTxt' = SaveImageTxt(arr)
    /\ written' = Written(arr.h, arr.w, 1)
    /\ stdout' = stdout \o <<"Created">>
    /\ exitStatus' = 0
    /\ UNCHANGED <<argv, fsImg, outImg, pixels, loaded, call, arr, rng>>

GenInit ==
    /\ fsImg = NoImg
    /\ fsTxt = NoTxt
    /\ argv = <<>>
    /\ outImg = NoImg
    /\ pixels = <<>>
    /\ stdout = <<>>
    /\ exitStatus = -1
    /\ runs = 0
    /\ ops = <<>>
    /\ loaded = NoLoad
    /\ call = NoCall
    /\ arr = NoArr
    /\ rng = NoRng
    /\ written = NoWritten

GenNext ==
    \/ \E s \in GradientSizes : CreateGradientImageRun(s[1], s[2])
    \/ \E s \in ShapesSizes : CreateShapesImageRun(s[1], s[2])
    \/ \E s \in CheckerSizes : \E bs \in BlockSizes : CreateCheckerboardImageRun(s[1], s[2], bs)
    \/ \E s \in NoisyEdgesSizes : CreateNoisyEdgesImageRun(s[1], s[2])
    \/ \E s \in SmallSizes : CreateBimodalImageRun(s[1], s[2])
    \/ \E s \in SmallSizes : \E p \in LevelPairs : GenerateBimodalImageRun(s[1], s[2], p)
    \/ \E s \in SmallSizes : \E p \in LevelPairs : GenerateCircleImageRun(s[1], s[2], p)
    \/ \E s \in GradientSizes : GenerateGradientImageRun(s[1], s[2])
    \/ \E s \in CheckerSizes : \E bs \in BlockSizes : \E p \in LevelPairs :
          GenerateCheckerboardImageRun(s[1], s[2], bs, p)
    \/ \E s \in SmallSizes : \E p \in NoiseParams : GenerateNoisyBimodalImageRun(s[1], s[2], p)
    \/ \E s \in ThreeLevelSizes : GenerateThreeLevelImageRun(s[1], s[2])
    \/ \E s \in QuadrantSizes : GenerateLargeTestImageRun(s[1], s[2])
    \/ \E s \in QuadrantSizes : GenerateVeryLargeImageRun(s[1], s[2])
    \/ SaveImageTxtRun

GenSpec == GenInit /\ [][GenNext]_vars

----------------------------------------------------------------------------
(* Successive generator calls of one process.  main() of                    *)
(* Image Segmentation/generate_test_images.py calls one generator after     *)
(* another; the random source is what one call leaves to the next, and it   *)
(* is in any state when the first call is made.                             *)

\* main() goes on from one generator call to the next
NextCallRun ==
    /\ call # NoCall
    /\ runs < MaxRuns
    /\ call' = NoCall
    /\ arr' = NoArr
    /\ UNCHANGED <<argv, fsImg, fsTxt, outImg, pixels, stdout, exitStatus, runs, ops,
                   loaded, rng, written>>

SeqInit ==
    /\ fsImg = NoImg
    /\ fsTxt = NoTxt
    /\ argv = <<>>
    /\ outImg = NoImg
    /\ pixels = <<>>
    /\ stdout = <<>>
    /\ exitStatus = -1
    /\ runs = 0
    /\ ops = <<>>
    /\ loaded = NoLoad
    /\ call = NoCall
    /\ arr = NoArr
    /\ rng \in RandomStreams
    /\ written = NoWritten

SeqNext ==
    \/ \E s \in SmallSizes : \E p \in NoiseParams : GenerateNoisyBimodalImageRun(s[1], s[2], p)
    \/ \E s \in QuadrantSizes : GenerateLargeTestImageRun(s[1], s[2])
    \/ \E s \in QuadrantSizes : GenerateVeryLargeImageRun(s[1], s[2])
    \/ \E s \in ThreeLevelSizes : GenerateThreeLevelImageRun(s[1], s[2])
    \/ SaveImageTxtRun
    \/ NextCallRun

SeqSpec == SeqInit /\ [][SeqNext]_vars

----------------------------------------------------------------------------
(* Claims about the writers and the generators *)

\* the tokens of the lines after the header of the text file, line by line
TextRowTokens == [i \in 1..(Len(fsTxt.lines) - 1) |-> Split(fsTxt.lines[i + 1])]

\* the text is the header "H W C" followed by exactly h lines of w*c
\* single-space-separated integers
WellFormedText(txt, h, w, c) ==
    /\ txt.exists
    /\ Len(txt.lines) = h + 1
    /\ txt.lines[1] = HeaderLine(h, w, c)
    /\ \A i \in 2..Len(txt.lines) :
          LET toks == Split(txt.lines[i])
          IN  /\ Len(toks) = w * c
              /\ \A k \in 1..Len(toks) : IsInt(toks[k])
              /\ txt.lines[i] = Join(toks)

\* the last run was a writer of the text format and it returned normally
WriterCompleted ==
    IF call # NoCall THEN call.status = "ok"
    ELSE /\ LastOp \in {"to_txt", "save_image_matrix"}
         /\ stdout # <<>>
         /\ stdout[Len(stdout)] \in {"Done", "Saved"}

\* C2 (as claimed): every writer of the text format (convert_to_txt,
\* save_image_matrix, save_image_txt and the generators that write the file
\* themselves) leaves a header "H W C" followed by exactly H lines, each holding
\* exactly W*C single-space-separated integers.
C2_WritersEmitRows ==
    (written.valid /\ WriterCompleted)
        => WellFormedText(fsTxt, written.h, written.w, written.c)

\* the parameters of the call are ones the generator is meant for: a positive
\* block size, grey levels of 0..255, a non-negative standard deviation
ParamsValid ==
    CASE call.gen = "create_checkerboard_image" -> call.params[1] >= 1
      [] call.gen \in {"generate_bimodal_image", "generate_circle_image"} ->
            InU8(call.params[1]) /\ InU8(call.params[2])
      [] call.gen = "generate_checkerboard_image" ->
            call.params[1] >= 1 /\ InU8(call.params[2]) /\ InU8(call.params[3])
      [] call.gen = "generate_noisy_bimodal_image" -> call.params[3] >= 0
      [] OTHER -> TRUE

\* the generators that write the text file themselves
TextGens ==
    {"create_gradient_image", "create_shapes_image", "create_checkerboard_image",
     "create_noisy_edges_image", "create_bimodal_image"}

\* C6 (as claimed): for every generator and every requested size h, w >= 0 the
\* call completes and its output has exactly the requested size: an array of h
\* rows of w values, or a text whose header is "h w 1" and that holds h*w values.
C6_GeneratorsCompleteWithSize ==
    (call # NoCall /\ ParamsValid)
        => /\ call.status = "ok"
           /\ IF call.gen \in TextGens
              THEN /\ fsTxt.exists
                   /\ fsTxt.lines[1] = HeaderLine(call.h, call.w, 1)
                   /\ Len(Flatten(TextRowTokens)) = call.h * call.w
              ELSE /\ arr.exists
                   /\ arr.h = call.h /\ arr.w = call.w
                   /\ Len(arr.rows) = call.h
                   /\ \A y \in 1..Len(arr.rows) : Len(arr.rows[y]) = call.w

\* C7: every value a generator emits, into the array it returns or into the
\* text file it writes, is an integer of 0..255; the noisy generators emit the
\* clipped value.
C7_ValuesInRange ==
    /\ arr.exists =>
          \A y \in 1..Len(arr.rows) : \A x \in 1..Len(arr.rows[y]) :
              arr.rows[y][x] \in 0..255
    /\ (call # NoCall /\ fsTxt.exists) =>
          \A toks \in {TextRowTokens} :
              \A i \in 1..Len(toks) : \A k \in 1..Len(toks[i]) :
                  IsInt(toks[i][k]) /\ IntOf(toks[i][k]) \in 0..255

\* a noisy generator returned an array in which noise was clipped at both ends
C7_Witness ==
    /\ call.gen = "generate_noisy_bimodal_image"
    /\ call.status = "ok"
    /\ call.params = <<0, 255, 100>>
    /\ \E y \in 1..Len(arr.rows) : \E x \in 1..Len(arr.rows[y]) : arr.rows[y][x] = 0
    /\ \E y \in 1..Len(arr.rows) : \E x \in 1..Len(arr.rows[y]) : arr.rows[y][x] = 255
    /\ LastOp = "save_image_txt"

\* whether block (floor(x/b), floor(y/b)) of pixel (y, x) has an even index sum
EvenBlock(y, x, b) == ((x \div b) + (y \div b)) % 2 = 0

\* the integers of the lines after the header of the text file, line by line
TextRowInts == [i \in 1..(Len(fsTxt.lines) - 1) |-> IntAll(Split(fsTxt.lines[i + 1]))]

\* a checkerboard call with a positive block size and grey levels completed
EdgeCheckerDone ==
    call.gen = "create_checkerboard_image" /\ call.status = "ok" /\ ParamsValid

SegCheckerDone ==
    call.gen = "generate_checkerboard_image" /\ call.status = "ok" /\ ParamsValid

\* C8 (as claimed): in both checkerboard generators the pixel (x, y) is bright
\* when floor(x/b) + floor(y/b) is even and dark when it is odd (200 and 50 in
\* Edge Detection, the parameters bright and dark in Image Segmentation).
C8_BrightOnEvenBlocks ==
    /\ EdgeCheckerDone =>
          \A txt \in {TextRowInts} :
              \A y \in 0..(call.h - 1) : \A x \in 0..(call.w - 1) :
                  txt[y + 1][x + 1] =
                      IF EvenBlock(y, x, call.params[1]) THEN 200 ELSE 50
    /\ SegCheckerDone =>
          \A y \in 0..(call.h - 1) : \A x \in 0..(call.w - 1) :
              arr.rows[y + 1][x + 1] =
                  IF EvenBlock(y, x, call.params[1]) THEN call.params[3]
                  ELSE call.params[2]

\* C8 (amended): the Edge Detection checkerboard is bright (200) on the blocks
\* whose index sum is even and dark (50) on the odd ones; the Image Segmentation
\* checkerboard is the other way round, dark on the even blocks and bright on
\* the odd ones.
C8_CheckerboardRule ==
    /\ EdgeCheckerDone =>
          \A txt \in {TextRowInts} :
              \A y \in 0..(call.h - 1) : \A x \in 0..(call.w - 1) :
                  txt[y + 1][x + 1] =
                      IF EvenBlock(y, x, call.params[1]) THEN 200 ELSE 50
    /\ SegCheckerDone =>
          \A y \in 0..(call.h - 1) : \A x \in 0..(call.w - 1) :
              arr.rows[y + 1][x + 1] =
                  IF EvenBlock(y, x, call.params[1]) THEN call.params[2]
                  ELSE call.params[3]

\* a 5 x 7 checkerboard of 3 x 3 blocks, dark 50 and bright 200, was returned
C8_Witness ==
    /\ SegCheckerDone
    /\ call.h = 5 /\ call.w = 7
    /\ call.params = <<3, 50, 200>>
    /\ arr.rows[1][1] = 50
    /\ arr.rows[1][4] = 200
    /\ arr.rows[4][1] = 200

\* the call of the worked checkerboard example
C9_Call ==
    /\ call.gen = "generate_checkerboard_image"
    /\ call.h = 4 /\ call.w = 4
    /\ call.params = <<2, 0, 255>>

\* C9: generate_checkerboard_image with block size 2, dark 0, bright 255 on a
\* 4 x 4 grid returns the rows [0 0 255 255], [0 0 255 255], [255 255 0 0],
\* [255 255 0 0], and save_image_txt writes them under the header "4 4 1".
C9_CheckerboardExample ==
    C9_Call =>
        /\ call.status = "ok"
        /\ arr.rows = << <<0, 0, 255, 255>>, <<0, 0, 255, 255>>,
                         <<255, 255, 0, 0>>, <<255, 255, 0, 0>> >>
        /\ LastOp = "save_image_txt" =>
              /\ fsTxt.lines[1] = HeaderLine(4, 4, 1)
              /\ TextRowInts = arr.rows

\* the worked example was generated and saved
C9_Witness == C9_Call /\ LastOp = "save_image_txt" /\ Len(fsTxt.lines) = 5

EdgeGradientDone == call.gen = "create_gradient_image" /\ call.status = "ok"

SegGradientDone == call.gen = "generate_gradient_image" /\ call.status = "ok"

\* column x lies in one of the inverted vertical stripes of the Edge gradient
InBand(x) == x % 50 < 5

\* row y (from 1) of a gradient image, as integers
GradientRow(y) ==
    IF call.gen = "create_gradient_image" THEN IntAll(Split(fsTxt.lines[y + 1]))
    ELSE arr.rows[y]

\* the values of row y do not decrease with x over the columns outside the stripes
NonDecreasing(row, banded) ==
    \A x1 \in 0..(Len(row) - 1) : \A x2 \in x1..(Len(row) - 1) :
        (banded => ~InBand(x1) /\ ~InBand(x2)) => row[x1 + 1] <= row[x2 + 1]

\* C10 (as claimed): every row of a gradient holds floor(255 * x / width) at
\* column x (255 minus that in the stripes x mod 50 < 5 of the Edge Detection
\* generator), so that width 256 gives value(0) = 0 and value(255) = 254, and
\* the values do not decrease with x outside the stripes.
C10_GradientFloorOverWidth ==
    /\ EdgeGradientDone =>
          \A y \in 1..call.h : \A row \in {GradientRow(y)} :
              /\ \A x \in 0..(call.w - 1) :
                    row[x + 1] =
                        IF InBand(x) THEN 255 - (255 * x) \div call.w
                        ELSE (255 * x) \div call.w
              /\ call.w = 256 => row[1] = 0 /\ row[256] = 254
              /\ NonDecreasing(row, TRUE)
    /\ SegGradientDone =>
          \A y \in 1..call.h : \A row \in {GradientRow(y)} :
              /\ \A x \in 0..(call.w - 1) :
                    row[x + 1] = (255 * x) \div call.w
              /\ call.w = 256 => row[1] = 0 /\ row[256] = 254
              /\ NonDecreasing(row, FALSE)

\* C10 (amended): every row create_gradient_image writes holds
\* floor(255 * x / width) at column x, and 255 minus that in the stripes
\* x mod 50 < 5, so that width 256 gives value(0) = 255 (column 0 lies in a
\* stripe) and value(255) = 254; every row generate_gradient_image returns holds
\* floor(255 * x / (width - 1)), so that width 256 gives value(0) = 0 and
\* value(255) = 255; in both the values do not decrease with x outside the
\* stripes.
C10_GradientRule ==
    /\ EdgeGradientDone =>
          \A y \in 1..call.h : \A row \in {GradientRow(y)} :
              /\ \A x \in 0..(call.w - 1) :
                    row[x + 1] =
                        IF InBand(x) THEN 255 - (255 * x) \div call.w
                        ELSE (255 * x) \div call.w
              /\ call.w = 256 => row[1] = 255 /\ row[256] = 254
              /\ NonDecreasing(row, TRUE)
    /\ SegGradientDone =>
          \A y \in 1..call.h : \A row \in {GradientRow(y)} :
              /\ \A x \in 0..(call.w - 1) :
                    row[x + 1] = (255 * x) \div (call.w - 1)
              /\ call.w = 256 => row[1] = 0 /\ row[256] = 255
              /\ NonDecreasing(row, FALSE)

\* a gradient of width 256 was returned, from 0 in column 0 to 255 in column 255
C10_Witness ==
    /\ SegGradientDone
    /\ call.h = 2 /\ call.w = 256
    /\ arr.rows[2][1] = 0
    /\ arr.rows[2][256] = 255
    /\ arr.rows[1][129] = 128

\* the generators that seed the random source before they draw
SeededGens ==
    {"generate_noisy_bimodal_image", "generate_large_test_image",
     "generate_very_large_image"}

\* the outcomes of the call of this state, had it found the source in state r
SeededCallFrom(r) ==
    CASE call.gen = "generate_noisy_bimodal_image" ->
            GenerateNoisyBimodalImage(r, call.h, call.w,
                                      call.params[1], call.params[2], call.params[3])
      [] call.gen = "generate_large_test_image" ->
            GenerateLargeTestImage(r, call.h, call.w)
      [] call.gen = "generate_very_large_image" ->
            GenerateVeryLargeImage(r, call.h, call.w)

\* C11: whatever the calls before it left in the random source, a call of a
\* seeded generator (generate_noisy_bimodal_image, generate_large_test_image,
\* generate_very_large_image) gives the result the same call gives from any
\* other state r of the source: the same array (or the same exception), and so
\* the same text once save_image_txt has written it.
C11_SeededDeterministic ==
    call.gen \in SeededGens =>
        \A r \in RandomStreams :
            /\ SeededCallFrom(r) = {[arr |-> arr, status |-> call.status, rng |-> rng]}
            /\ (LastOp = "save_image_txt") =>
                  \A o \in SeededCallFrom(r) : fsTxt = SaveImageTxt(o.arr)

\* a seeded generator was called after a call of another seeded generator, and
\* returned an array that holds noise
C11_Witness ==
    /\ ops = <<"generate_large_test_image", "generate_very_large_image">>
    /\ call.status = "ok"
    /\ call.h = 2 /\ call.w = 2
    /\ \E y \in 1..2 : \E x \in 1..2 : arr.rows[y][x] # arr.rows[1][1]

\* the text file has a valid header and integer rows: the (H, W, C) it declares
\* and the number of values after the header
DeclaredCount ==
    LET hd == IntAll(Split(ReadLine(fsTxt)))
    IN  hd[1] * hd[2] * hd[3]

ValuesGiven == Len(BodyValues(fsTxt).pixels)

ReadableText == fsTxt.exists /\ ~HeaderInvalid(fsTxt) /\ BodyValues(fsTxt).ok

\* C12 (as claimed): on both text-to-image paths, when the number of values
\* differs from the H*W*C of the header the encoding fails with an error and
\* produces no image (convert_to_img writes no file, load_segmented_image
\* returns no matrix); an image is produced only when the count matches.
C12_MismatchWritesNoImage ==
    /\ (ops = <<"to_img">> /\ ReadableText) =>
          /\ ValuesGiven # DeclaredCount =>
                /\ stdout[Len(stdout)] = "ErrorToImage"
                /\ outImg = NoImg
          /\ outImg.exists => ValuesGiven = DeclaredCount
    /\ (ops = <<"load_segmented_image">> /\ ReadableText) =>
          /\ ValuesGiven # DeclaredCount => loaded.status # "ok"
          /\ loaded.status = "ok" => ValuesGiven = DeclaredCount

ShapesDone == call.gen = "create_shapes_image" /\ call.status = "ok"

\* the state the random source was in when the completed create_shapes_image
\* call began: the call made 37 draws
ShapesSourceBefore == Advance(rng, (Len(rng) - (37 % Len(rng))) % Len(rng))

\* shape s covers the point (x, y) of the plane
Covers(s, y, x) ==
    IF s.kind = "rect"
    THEN s.a <= x /\ x < s.a + s.c /\ s.b <= y /\ y < s.b + s.d
    ELSE (x - s.a) * (x - s.a) + (y - s.b) * (y - s.b) <= s.c * s.c

\* C13: create_shapes_image writes h rows of w values, and the value of each
\* pixel is the fill value of the last-drawn shape that covers it, the five
\* rectangles being drawn before the three circles, or the background value 50
\* when no shape covers it (so no value is blended and no write leaves the grid).
C13_PaintersOrder ==
    ShapesDone =>
        \A shapes \in {ShapesDrawn(ShapesSourceBefore, call.h, call.w)} :
        \A txt \in {TextRowInts} :
           /\ fsTxt.lines[1] = HeaderLine(call.h, call.w, 1)
           /\ Len(txt) = call.h
           /\ \A y \in 0..(call.h - 1) :
                 /\ Len(txt[y + 1]) = call.w
                 /\ \A x \in 0..(call.w - 1) :
                       LET cov == {i \in 1..Len(shapes) : Covers(shapes[i], y, x)}
                       IN  txt[y + 1][x + 1] =
                              IF cov = {} THEN 50
                              ELSE shapes[CHOOSE i \in cov : \A j \in cov : j <= i].val

\* the last two rectangles drawn have different fill values and both cover
\* pixel (10, 10), which no circle covers: it holds the value of the later one
C13_Witness ==
    /\ ShapesDone
    /\ LET shapes == ShapesDrawn(ShapesSourceBefore, call.h, call.w)
       IN  /\ shapes[4].val # shapes[5].val
           /\ Covers(shapes[4], 10, 10) /\ Covers(shapes[5], 10, 10)
           /\ \A i \in 6..8 : ~Covers(shapes[i], 10, 10)
           /\ IntAll(Split(fsTxt.lines[12]))[11] = shapes[5].val

====
